---- MODULE Spec2Model ----
(***************************************************************************)
(* Model of the Vpc component (class Vpc, interface VpcArgs).              *)
(*                                                                         *)
(* The component is a constructor that registers itself with the          *)
(* provisioning engine, validates its arguments and then declares a fixed  *)
(* sequence of resources.  Every `new aws.X(...)` of the constructor is    *)
(* one step of the model; the engine is the registry the declarations are  *)
(* appended to, and it hands out identifiers in declaration order.         *)
(*                                                                         *)
(* JavaScript strings that the code inspects character by character (the   *)
(* CIDR blocks) are sequences of one-character strings.  Template strings  *)
(* such as `${name}-public-${az}` are sequences of their parts, the "-"    *)
(* between two parts being implied.  An optional value is None or Some(v). *)
(***************************************************************************)
EXTENDS Integers, Sequences, FiniteSets, TLC

VARIABLES
  registry,   \* the engine: sequence of the resources declared so far
  pc,         \* position of the running constructor
  args,       \* the VpcArgs of the running constructor
  local,      \* the constructor's local constants (vpc, publicSubnets, ...)
  outputs,    \* the component's output properties, None until they are set
  error,      \* the Error thrown by the constructor, None if none
  prev,       \* the construction completed before the running one, if any
  cidrIn,     \* argument of a direct call of validateCidrBlock
  cidrOut     \* its result: "pending", or the outcome of the call

vars == <<registry, pc, args, local, outputs, error, prev, cidrIn, cidrOut>>

None == [some |-> FALSE]

Some(v) == [some |-> TRUE, val |-> v]

(***************************************************************************)
(* Strings                                                                 *)
(***************************************************************************)
DigitChars == <<"0", "1", "2", "3", "4", "5", "6", "7", "8", "9">>

IsDigit(c) == \E n \in 1..10 : DigitChars[n] = c

DigitVal(c) == (CHOOSE n \in 1..10 : DigitChars[n] = c) - 1

\* String(index) for the indices the constructor formats into names.
IndexString(n) == DigitChars[n + 1]

Chars(s, from, to) == [k \in 1..(to - from + 1) |-> s[from + k - 1]]

\* NaN of JavaScript numbers; every ordering comparison with it is false.
NaN == -1

IsNaN(n) == n = NaN

RECURSIVE DecimalValue(_)
DecimalValue(s) ==
  IF s = <<>> THEN 0
  ELSE 10 * DecimalValue(Chars(s, 1, Len(s) - 1)) + DigitVal(s[Len(s)])

\* Length of the longest prefix of s made of decimal digits.
RECURSIVE DigitPrefixLen(_)
DigitPrefixLen(s) ==
  IF s = <<>> \/ ~IsDigit(s[1]) THEN 0
  ELSE 1 + DigitPrefixLen(Tail(s))

\* parseInt(s) on the strings the code passes: no sign, no blank, no radix.
ParseInt(s) ==
  IF DigitPrefixLen(s) = 0 THEN NaN
  ELSE DecimalValue(Chars(s, 1, DigitPrefixLen(s)))

\* Number(s) on strings without sign, blank, exponent or fraction.
Number(s) ==
  IF s = <<>> THEN 0
  ELSE IF DigitPrefixLen(s) = Len(s) THEN DecimalValue(s)
  ELSE NaN

\* s.split(sep) for a one-character separator.
RECURSIVE Split(_, _)
Split(s, sep) ==
  IF \A k \in 1..Len(s) : s[k] # sep THEN <<s>>
  ELSE LET k == CHOOSE i \in 1..Len(s) :
                  s[i] = sep /\ \A j \in 1..(i - 1) : s[j] # sep
       IN  <<Chars(s, 1, k - 1)>> \o Split(Chars(s, k + 1, Len(s)), sep)

(***************************************************************************)
(* The regular expression /^(\d{1,3}\.){3}\d{1,3}\/\d{1,2}$/, matched by   *)
(* the set of positions each part of the pattern can end at.               *)
(***************************************************************************)
\* Positions reached from a position of P by \d{lo,hi}.
DigitsFrom(s, P, lo, hi) ==
  { i + n : i \in P, n \in lo..hi } \cap
  { j \in 1..(Len(s) + 1) :
      \E i \in P : i <= j /\ j - i \in lo..hi
                   /\ \A k \in i..(j - 1) : IsDigit(s[k]) }

\* Positions reached from a position of P by the literal character c.
CharFrom(s, P, c) == { i + 1 : i \in { j \in P : j <= Len(s) /\ s[j] = c } }

OctetDot(s, P) == CharFrom(s, DigitsFrom(s, P, 1, 3), ".")

\* The regular expression as it would be without the closing anchor.
CidrRegexTestUnanchored(s) ==
  LET p3 == OctetDot(s, OctetDot(s, OctetDot(s, {1})))
      p4 == DigitsFrom(s, p3, 1, 3)
      p5 == CharFrom(s, p4, "/")
      p6 == DigitsFrom(s, p5, 1, 2)
  IN  p6 # {}

CidrRegexTest(s) ==
  LET p3 == OctetDot(s, OctetDot(s, OctetDot(s, {1})))
      p4 == DigitsFrom(s, p3, 1, 3)
      p5 == CharFrom(s, p4, "/")
      p6 == DigitsFrom(s, p5, 1, 2)
  IN  Len(s) + 1 \in p6

(***************************************************************************)
(* Vpc.validateCidrBlock: None when it returns, Some(message) when it      *)
(* throws.  nm is the `name` argument, the prefix of the message.          *)
(***************************************************************************)
ValidateCidrBlock(cidr, nm) ==
  IF ~CidrRegexTest(cidr)
  THEN Some(nm \o <<"must be a valid CIDR block (e.g., 10.0.0.0/16)">>)
  ELSE LET parts   == Split(cidr, "/")
           ip      == parts[1]
           prefix  == ParseInt(parts[2])
           ipParts == [k \in 1..Len(Split(ip, ".")) |-> Number(Split(ip, ".")[k])]
       IN  IF ~IsNaN(prefix) /\ (prefix < 8 \/ prefix > 30)
           THEN Some(nm \o <<"prefix must be between 8 and 30">>)
           ELSE IF \E k \in 1..Len(ipParts) :
                     ~IsNaN(ipParts[k]) /\ (ipParts[k] < 0 \/ ipParts[k] > 255)
                THEN Some(nm \o <<"contains invalid IP address">>)
                ELSE None

(***************************************************************************)
(* Vpc.validateArgs: None when it returns, Some(message) when it throws.   *)
(***************************************************************************)
\* !s for an optional string held as a TLA+ string or a character sequence.
Falsy(opt, empty) == ~opt.some \/ opt.val = empty

\* cidrs.forEach((cidr, index) => validateCidrBlock(cidr, `${label} ${index} CIDR`))
\* from the element at position k on: the first throw ends the loop.
RECURSIVE ForEachValidate(_, _, _)
ForEachValidate(cidrs, label, k) ==
  IF k > Len(cidrs) THEN None
  ELSE LET r == ValidateCidrBlock(cidrs[k], <<label, IndexString(k - 1), "CIDR">>)
       IN  IF r.some THEN r ELSE ForEachValidate(cidrs, label, k + 1)

\* validateArgs as it would be with the project check before the environment
\* check.
ValidateArgsProjectFirst(a) ==
  IF Falsy(a.cidrBlock, <<>>)
  THEN Some(<<"cidrBlock is required">>)
  ELSE IF ~a.availabilityZones.some \/ Len(a.availabilityZones.val) = 0
  THEN Some(<<"availabilityZones must be provided and non-empty">>)
  ELSE IF ~a.publicSubnetCidrs.some
          \/ Len(a.publicSubnetCidrs.val) # Len(a.availabilityZones.val)
  THEN Some(<<"publicSubnetCidrs must be provided and match the number of availability zones">>)
  ELSE IF ~a.privateSubnetCidrs.some
          \/ Len(a.privateSubnetCidrs.val) # Len(a.availabilityZones.val)
  THEN Some(<<"privateSubnetCidrs must be provided and match the number of availability zones">>)
  ELSE IF Falsy(a.project, "")
  THEN Some(<<"project is required">>)
  ELSE IF Falsy(a.environment, "")
  THEN Some(<<"environment is required">>)
  ELSE LET r7 == ValidateCidrBlock(a.cidrBlock.val, <<"VPC CIDR">>)
           r8 == ForEachValidate(a.publicSubnetCidrs.val, "Public subnet", 1)
           r9 == ForEachValidate(a.privateSubnetCidrs.val, "Private subnet", 1)
       IN  IF r7.some THEN r7 ELSE IF r8.some THEN r8 ELSE r9

ValidateArgs(a) ==
  IF Falsy(a.cidrBlock, <<>>)
  THEN Some(<<"cidrBlock is required">>)
  ELSE IF ~a.availabilityZones.some \/ Len(a.availabilityZones.val) = 0
  THEN Some(<<"availabilityZones must be provided and non-empty">>)
  ELSE IF ~a.publicSubnetCidrs.some
          \/ Len(a.publicSubnetCidrs.val) # Len(a.availabilityZones.val)
  THEN Some(<<"publicSubnetCidrs must be provided and match the number of availability zones">>)
  ELSE IF ~a.privateSubnetCidrs.some
          \/ Len(a.privateSubnetCidrs.val) # Len(a.availabilityZones.val)
  THEN Some(<<"privateSubnetCidrs must be provided and match the number of availability zones">>)
  ELSE IF Falsy(a.environment, "")
  THEN Some(<<"environment is required">>)
  ELSE IF Falsy(a.project, "")
  THEN Some(<<"project is required">>)
  ELSE LET r7 == ValidateCidrBlock(a.cidrBlock.val, <<"VPC CIDR">>)
           r8 == ForEachValidate(a.publicSubnetCidrs.val, "Public subnet", 1)
           r9 == ForEachValidate(a.privateSubnetCidrs.val, "Private subnet", 1)
       IN  IF r7.some THEN r7 ELSE IF r8.some THEN r8 ELSE r9

(***************************************************************************)
(* Bounds and inputs                                                       *)
(***************************************************************************)
\* Longest availabilityZones, publicSubnetCidrs and privateSubnetCidrs.
MaxZones == 3

ZoneNames == {"a", "b"}

Range(f) == { f[i] : i \in DOMAIN f }

SeqsUpTo(S, n) == UNION { [1..k -> S] : k \in 0..n }

Decimal(n) ==
  IF n < 10 THEN <<DigitChars[n + 1]>>
  ELSE <<DigitChars[(n \div 10) + 1], DigitChars[(n % 10) + 1]>>

\* "10.0.<k>.0/24"
SubnetCidr(k) ==
  <<"1", "0", ".", "0", ".">> \o Decimal(k) \o <<".", "0", "/", "2", "4">>

VpcCidr == <<"1", "0", ".", "0", ".", "0", ".", "0", "/", "1", "6">>

\* "10.0.0.0/7": well formed but for the prefix length.
ShortPrefixCidr == <<"1", "0", ".", "0", ".", "0", ".", "0", "/", "7">>

\* "10.0.1.0/31": well formed but for the prefix length.
LongPrefixCidr == <<"1", "0", ".", "0", ".", "1", ".", "0", "/", "3", "1">>

Tenancies == {None, Some("default"), Some("dedicated")}

Flags == {None, Some(TRUE), Some(FALSE)}

Retentions == {None, Some(0), Some(7), Some(30)}

\* The second tag set overrides one of the standard tags.
TagSets == {None, Some([Owner |-> "team", Environment |-> "audit"])}

\* [i \in 1..k |-> v]
Repeat(v, k) == [i \in 1..k |-> v]

\* Configurations that exercise the presence and length checks of
\* validateArgs: every required field may be missing or empty, the lists have
\* every length and are well formed or ill formed throughout.
PresenceInputs ==
  [ cidrBlock            : {None, Some(<<>>), Some(VpcCidr), Some(ShortPrefixCidr)},
    availabilityZones    : {None} \cup { Some([i \in 1..k |-> IF i % 2 = 1 THEN "a" ELSE "b"]) :
                                         k \in 0..MaxZones },
    publicSubnetCidrs    : {None} \cup { Some(Repeat(c, k)) :
                                         c \in {SubnetCidr(1), LongPrefixCidr}, k \in 0..MaxZones },
    privateSubnetCidrs   : {None} \cup { Some(Repeat(c, k)) :
                                         c \in {SubnetCidr(11), LongPrefixCidr}, k \in 0..MaxZones },
    environment          : {None, Some(""), Some("dev")},
    project              : {None, Some(""), Some("idp")},
    instanceTenancy      : {None},
    enableNatGateway     : {None},
    enableFlowLogs       : {None},
    flowLogRetentionDays : {None},
    tags                 : {None} ]

\* Configurations that exercise the CIDR checks of validateArgs: lists of
\* the right length in which every entry is well formed or not.
SyntaxInputs ==
  UNION { [ cidrBlock            : {Some(VpcCidr), Some(ShortPrefixCidr)},
            availabilityZones    : {Some([i \in 1..n |-> IF i % 2 = 1 THEN "a" ELSE "b"])},
            publicSubnetCidrs    : { Some(l) : l \in [1..n -> {SubnetCidr(1), LongPrefixCidr}] },
            privateSubnetCidrs   : { Some(l) : l \in [1..n -> {SubnetCidr(11), LongPrefixCidr}] },
            environment          : {None, Some("dev")},
            project              : {Some(""), Some("idp")},
            instanceTenancy      : {None},
            enableNatGateway     : {None},
            enableFlowLogs       : {None},
            flowLogRetentionDays : {None},
            tags                 : {None} ] : n \in 1..MaxZones }

ValidationInputs == PresenceInputs \cup SyntaxInputs

\* The first n subnet CIDRs from `from` on, in ascending or descending order.
CidrLists(from, n) ==
  { [i \in 1..n |-> SubnetCidr(from + i - 1)], [i \in 1..n |-> SubnetCidr(from + n - i)] }

\* Configurations that exercise the shape of the resource graph: the
\* required fields are well formed, the zones (repeated ones included) and
\* the order of the CIDRs vary, and so do the two flags.
ShapeInputs ==
  UNION { [ cidrBlock            : {Some(VpcCidr)},
            availabilityZones    : { Some(z) : z \in [1..n -> ZoneNames] },
            publicSubnetCidrs    : { Some(l) : l \in CidrLists(1, n) },
            privateSubnetCidrs   : { Some(l) : l \in CidrLists(11, n) },
            environment          : {Some("dev")},
            project              : {Some("idp")},
            instanceTenancy      : {None},
            enableNatGateway     : Flags,
            enableFlowLogs       : Flags,
            flowLogRetentionDays : {None},
            tags                 : {None} ] : n \in 1..MaxZones }

\* Configurations that exercise the optional fields: every combination of
\* their values, for one zone list of each length.
OptionInputs ==
  UNION { [ cidrBlock            : {Some(VpcCidr)},
            availabilityZones    : {Some([i \in 1..n |-> IF i % 2 = 1 THEN "a" ELSE "b"])},
            publicSubnetCidrs    : {Some([i \in 1..n |-> SubnetCidr(i)])},
            privateSubnetCidrs   : {Some([i \in 1..n |-> SubnetCidr(10 + i)])},
            environment          : {Some("dev")},
            project              : {Some("idp")},
            instanceTenancy      : Tenancies,
            enableNatGateway     : Flags,
            enableFlowLogs       : Flags,
            flowLogRetentionDays : Retentions,
            tags                 : TagSets ] : n \in 1..MaxZones }

BuildInputs == ShapeInputs \cup OptionInputs

Inputs == ValidationInputs \cup BuildInputs

\* The `name` argument of the constructor.
ComponentName == "net"

(***************************************************************************)
(* The engine: a declaration appends the resource to the registry; its     *)
(* identifier is its position.  This component is the parent of every      *)
(* resource it declares.                                                   *)
(***************************************************************************)
Ref(id, attr) == [res |-> id, attr |-> attr]

NoTags == [k \in {} |-> ""]

\* A declaration as it would be if the parent were kept in a variable shared
\* by all instances: the first component constructed.
ResourceSharedParent(type, nm, props, refs, routes, tags) ==
  [ id     |-> Len(registry) + 1,
    type   |-> type,
    name   |-> nm,
    parent |-> 1,
    props  |-> props,
    refs   |-> refs,
    routes |-> routes,
    tags   |-> tags ]

\* new aws.X(nm, {...}, { parent: this })
Resource(type, nm, props, refs, routes, tags) ==
  [ id     |-> Len(registry) + 1,
    type   |-> type,
    name   |-> nm,
    parent |-> local.self,
    props  |-> props,
    refs   |-> refs,
    routes |-> routes,
    tags   |-> tags ]

\* {...a, ...b}
Spread(a, b) ==
  [k \in DOMAIN a \cup DOMAIN b |-> IF k \in DOMAIN b THEN b[k] ELSE a[k]]

NoLocals ==
  [ self |-> 0, index |-> 0, vpc |-> 0, internetGateway |-> 0,
    publicSubnets |-> <<>>, privateSubnets |-> <<>>, publicRouteTable |-> 0,
    natEips |-> <<>>, natGateways |-> <<>>, privateRouteTables |-> <<>>,
    flowLogGroup |-> 0, flowLogRole |-> 0, flowLog |-> None ]

Zones == args.availabilityZones.val

Init ==
  /\ registry = <<>>
  /\ pc = "super"
  /\ args \in Inputs
  /\ local = NoLocals
  /\ outputs = None
  /\ error = None
  /\ prev = None
  /\ cidrIn = <<>>
  /\ cidrOut = None

\* super("proserve:aws:Vpc", name, args, opts): the base class registers the
\* component itself with the engine.
Super ==
  /\ pc = "super"
  /\ registry' = Append(registry,
       [ id |-> Len(registry) + 1, type |-> "proserve:aws:Vpc",
         name |-> <<ComponentName>>, parent |-> 0, props |-> <<>>,
         refs |-> <<>>, routes |-> <<>>, tags |-> NoTags ])
  /\ local' = [local EXCEPT !.self = Len(registry) + 1]
  /\ pc' = "validateArgs"
  /\ UNCHANGED <<args, outputs, error, prev, cidrIn, cidrOut>>

\* Validate as it would be if the VPC were declared before the arguments are
\* validated.
ValidateAfterDeclaring ==
  /\ pc = "validateArgs"
  /\ registry' = Append(registry,
       Resource("aws:ec2:Vpc", <<ComponentName, "vpc">>, <<>>, <<>>, <<>>, NoTags))
  /\ error' = ValidateArgs(args)
  /\ pc' = IF ValidateArgs(args).some THEN "failed" ELSE "vpc"
  /\ UNCHANGED <<args, local, outputs, prev, cidrIn, cidrOut>>

\* this.validateArgs(args): a throw ends the constructor.
Validate ==
  /\ pc = "validateArgs"
  /\ error' = ValidateArgs(args)
  /\ pc' = IF ValidateArgs(args).some THEN "failed" ELSE "vpc"
  /\ UNCHANGED <<registry, args, local, outputs, prev, cidrIn, cidrOut>>

(***************************************************************************)
(* The declarations of the constructor, in program order.  A loop          *)
(* (array.map) is one action per iteration; local.index is its index.      *)
(***************************************************************************)
StandardTags(nm) ==
  [ Name        |-> nm,
    Environment |-> args.environment.val,
    Project     |-> args.project.val,
    ManagedBy   |-> "pulumi" ]

TypedTags(nm, type) ==
  [ Name        |-> nm,
    Environment |-> args.environment.val,
    Project     |-> args.project.val,
    Type        |-> type,
    ManagedBy   |-> "pulumi" ]

UnnamedTags ==
  [ Environment |-> args.environment.val,
    Project     |-> args.project.val,
    ManagedBy   |-> "pulumi" ]

\* Position after one iteration of a loop over availabilityZones.
LastIteration == local.index + 1 = Len(Zones)

NextIndex == IF LastIteration THEN 0 ELSE local.index + 1

\* The NAT condition as it would be if it tested that the flag is given.
NatEnabledIfGiven == args.enableNatGateway.some

\* args.enableNatGateway !== false
NatEnabled == ~(args.enableNatGateway.some /\ args.enableNatGateway.val = FALSE)

\* args.publicSubnetCidrs[index] as it would be with the index dropped.
PublicSubnetCidrFirst(index) == args.publicSubnetCidrs.val[1]

\* args.publicSubnetCidrs[index]!
PublicSubnetCidr(index) == args.publicSubnetCidrs.val[index + 1]

\* natGateways[index] as it would be with the index dropped.
NatGatewayFirst(index) == local.natGateways[1]

\* natGateways[index]!
NatGatewayOf(index) == local.natGateways[index + 1]

\* privateRouteTables[index] as it would be with the index dropped.
PrivateRouteTableFirst(index) == local.privateRouteTables[1]

\* privateRouteTables[index]!
PrivateRouteTableOf(index) == local.privateRouteTables[index + 1]

\* The flowLogId output as it would be if it were always the absent value.
FlowLogIdAbsent == None

\* flowLog ? flowLog.id : pulumi.output(undefined)
FlowLogId ==
  IF local.flowLog.some THEN Some(registry[local.flowLog.val].id) ELSE None

\* args.enableFlowLogs !== false
FlowLogsEnabled == ~(args.enableFlowLogs.some /\ args.enableFlowLogs.val = FALSE)

\* instanceTenancy as it would be with another fallback.
InstanceTenancyDedicated ==
  IF Falsy(args.instanceTenancy, "") THEN "dedicated" ELSE args.instanceTenancy.val

\* args.instanceTenancy || "default"
InstanceTenancy ==
  IF Falsy(args.instanceTenancy, "") THEN "default" ELSE args.instanceTenancy.val

\* args.flowLogRetentionDays || 7
RetentionInDays ==
  IF Falsy(args.flowLogRetentionDays, 0) THEN 7 ELSE args.flowLogRetentionDays.val

\* The tags of the VPC: the standard tags, then ...args.tags.
VpcTags ==
  IF args.tags.some
  THEN Spread(StandardTags(<<ComponentName, "vpc">>), args.tags.val)
  ELSE StandardTags(<<ComponentName, "vpc">>)

CreateVpc ==
  /\ pc = "vpc"
  /\ registry' = Append(registry,
       Resource("aws:ec2:Vpc", <<ComponentName, "vpc">>,
                [ cidrBlock |-> args.cidrBlock.val, enableDnsHostnames |-> TRUE,
                  enableDnsSupport |-> TRUE, instanceTenancy |-> InstanceTenancy ],
                <<>>, <<>>, VpcTags))
  /\ local' = [local EXCEPT !.vpc = Len(registry) + 1]
  /\ pc' = "internetGateway"
  /\ UNCHANGED <<args, outputs, error, prev, cidrIn, cidrOut>>

CreateInternetGateway ==
  /\ pc = "internetGateway"
  /\ registry' = Append(registry,
       Resource("aws:ec2:InternetGateway", <<ComponentName, "igw">>, <<>>,
                [vpcId |-> Ref(local.vpc, "id")], <<>>,
                StandardTags(<<ComponentName, "igw">>)))
  /\ local' = [local EXCEPT !.internetGateway = Len(registry) + 1, !.index = 0]
  /\ pc' = "publicSubnets"
  /\ UNCHANGED <<args, outputs, error, prev, cidrIn, cidrOut>>

CreatePublicSubnet ==
  /\ pc = "publicSubnets"
  /\ LET az == Zones[local.index + 1]
         nm == <<ComponentName, "public", az>>
     IN  registry' = Append(registry,
           Resource("aws:ec2:Subnet", nm,
                    [ cidrBlock |-> PublicSubnetCidr(local.index),
                      availabilityZone |-> az, mapPublicIpOnLaunch |-> TRUE ],
                    [vpcId |-> Ref(local.vpc, "id")], <<>>,
                    TypedTags(nm, "public")))
  /\ local' = [local EXCEPT !.publicSubnets = Append(@, Len(registry) + 1),
                            !.index = NextIndex]
  /\ pc' = IF LastIteration THEN "privateSubnets" ELSE pc
  /\ UNCHANGED <<args, outputs, error, prev, cidrIn, cidrOut>>

CreatePrivateSubnet ==
  /\ pc = "privateSubnets"
  /\ LET az == Zones[local.index + 1]
         nm == <<ComponentName, "private", az>>
     IN  registry' = Append(registry,
           Resource("aws:ec2:Subnet", nm,
                    [ cidrBlock |-> args.privateSubnetCidrs.val[local.index + 1],
                      availabilityZone |-> az, mapPublicIpOnLaunch |-> FALSE ],
                    [vpcId |-> Ref(local.vpc, "id")], <<>>,
                    TypedTags(nm, "private")))
  /\ local' = [local EXCEPT !.privateSubnets = Append(@, Len(registry) + 1),
                            !.index = NextIndex]
  /\ pc' = IF LastIteration THEN "publicRouteTable" ELSE pc
  /\ UNCHANGED <<args, outputs, error, prev, cidrIn, cidrOut>>

DefaultRoute(key, id) ==
  [cidrBlock |-> "0.0.0.0/0", key |-> key, target |-> Ref(id, "id")]

CreatePublicRouteTable ==
  /\ pc = "publicRouteTable"
  /\ registry' = Append(registry,
       Resource("aws:ec2:RouteTable", <<ComponentName, "public-rt">>, <<>>,
                [vpcId |-> Ref(local.vpc, "id")],
                <<DefaultRoute("gatewayId", local.internetGateway)>>,
                TypedTags(<<ComponentName, "public-rt">>, "public")))
  /\ local' = [local EXCEPT !.publicRouteTable = Len(registry) + 1, !.index = 0]
  /\ pc' = "publicRta"
  /\ UNCHANGED <<args, outputs, error, prev, cidrIn, cidrOut>>

\* publicSubnets.map: one association per public subnet.
AssociatePublicSubnet ==
  /\ pc = "publicRta"
  /\ registry' = Append(registry,
       Resource("aws:ec2:RouteTableAssociation",
                <<ComponentName, "public-rta", IndexString(local.index)>>, <<>>,
                [ subnetId     |-> Ref(local.publicSubnets[local.index + 1], "id"),
                  routeTableId |-> Ref(local.publicRouteTable, "id") ],
                <<>>, NoTags))
  /\ local' = [local EXCEPT !.index =
                 IF local.index + 1 = Len(local.publicSubnets) THEN 0 ELSE @ + 1]
  /\ pc' = IF local.index + 1 = Len(local.publicSubnets)
           THEN IF NatEnabled THEN "natEips" ELSE "privateRouteTables"
           ELSE pc
  /\ UNCHANGED <<args, outputs, error, prev, cidrIn, cidrOut>>

AllocateEip ==
  /\ pc = "natEips"
  /\ LET nm == <<ComponentName, "nat-eip", Zones[local.index + 1]>>
     IN  registry' = Append(registry,
           Resource("aws:ec2:Eip", nm, [domain |-> "vpc"], <<>>, <<>>,
                    StandardTags(nm)))
  /\ local' = [local EXCEPT !.natEips = Append(@, Len(registry) + 1),
                            !.index = NextIndex]
  /\ pc' = IF LastIteration THEN "natGateways" ELSE pc
  /\ UNCHANGED <<args, outputs, error, prev, cidrIn, cidrOut>>

CreateNatGateway ==
  /\ pc = "natGateways"
  /\ LET nm == <<ComponentName, "nat", Zones[local.index + 1]>>
     IN  registry' = Append(registry,
           Resource("aws:ec2:NatGateway", nm, <<>>,
                    [ allocationId |-> Ref(local.natEips[local.index + 1], "id"),
                      subnetId     |-> Ref(local.publicSubnets[local.index + 1], "id") ],
                    <<>>, StandardTags(nm)))
  /\ local' = [local EXCEPT !.natGateways = Append(@, Len(registry) + 1),
                            !.index = NextIndex]
  /\ pc' = IF LastIteration THEN "privateRouteTablesNat" ELSE pc
  /\ UNCHANGED <<args, outputs, error, prev, cidrIn, cidrOut>>

\* The private route tables of the NAT branch.
CreatePrivateRouteTableNat ==
  /\ pc = "privateRouteTablesNat"
  /\ LET nm == <<ComponentName, "private-rt", Zones[local.index + 1]>>
     IN  registry' = Append(registry,
           Resource("aws:ec2:RouteTable", nm, <<>>,
                    [vpcId |-> Ref(local.vpc, "id")],
                    <<DefaultRoute("natGatewayId", NatGatewayOf(local.index))>>,
                    TypedTags(nm, "private")))
  /\ local' = [local EXCEPT !.privateRouteTables = Append(@, Len(registry) + 1),
                            !.index = NextIndex]
  /\ pc' = IF LastIteration THEN "privateRta" ELSE pc
  /\ UNCHANGED <<args, outputs, error, prev, cidrIn, cidrOut>>

\* The private route tables of the else branch: no routes property.
CreatePrivateRouteTable ==
  /\ pc = "privateRouteTables"
  /\ LET nm == <<ComponentName, "private-rt", Zones[local.index + 1]>>
     IN  registry' = Append(registry,
           Resource("aws:ec2:RouteTable", nm, <<>>,
                    [vpcId |-> Ref(local.vpc, "id")], <<>>,
                    TypedTags(nm, "private")))
  /\ local' = [local EXCEPT !.privateRouteTables = Append(@, Len(registry) + 1),
                            !.index = NextIndex]
  /\ pc' = IF LastIteration THEN "privateRta" ELSE pc
  /\ UNCHANGED <<args, outputs, error, prev, cidrIn, cidrOut>>

\* privateSubnets.map: one association per private subnet.
AssociatePrivateSubnet ==
  /\ pc = "privateRta"
  /\ registry' = Append(registry,
       Resource("aws:ec2:RouteTableAssociation",
                <<ComponentName, "private-rta", IndexString(local.index)>>, <<>>,
                [ subnetId     |-> Ref(local.privateSubnets[local.index + 1], "id"),
                  routeTableId |-> Ref(PrivateRouteTableOf(local.index), "id") ],
                <<>>, NoTags))
  /\ local' = [local EXCEPT !.index =
                 IF local.index + 1 = Len(local.privateSubnets) THEN 0 ELSE @ + 1]
  /\ pc' = IF local.index + 1 = Len(local.privateSubnets) THEN "defaultSg" ELSE pc
  /\ UNCHANGED <<args, outputs, error, prev, cidrIn, cidrOut>>

CreateDefaultSecurityGroup ==
  /\ pc = "defaultSg"
  /\ registry' = Append(registry,
       Resource("aws:ec2:DefaultSecurityGroup", <<ComponentName, "default-sg">>,
                [ egress |-> << [ protocol |-> "-1", fromPort |-> 0, toPort |-> 0,
                                  cidrBlocks |-> <<"0.0.0.0/0">> ] >> ],
                [vpcId |-> Ref(local.vpc, "id")], <<>>,
                StandardTags(<<ComponentName, "default-sg">>)))
  /\ pc' = IF FlowLogsEnabled THEN "flowLogGroup" ELSE "outputs"
  /\ UNCHANGED <<args, local, outputs, error, prev, cidrIn, cidrOut>>

CreateFlowLogGroup ==
  /\ pc = "flowLogGroup"
  /\ registry' = Append(registry,
       Resource("aws:cloudwatch:LogGroup", <<ComponentName, "flow-logs">>,
                [ name |-> <<"/aws/vpc/flow-logs/", ComponentName>>,
                  retentionInDays |-> RetentionInDays ],
                <<>>, <<>>, UnnamedTags))
  /\ local' = [local EXCEPT !.flowLogGroup = Len(registry) + 1]
  /\ pc' = "flowLogRole"
  /\ UNCHANGED <<args, outputs, error, prev, cidrIn, cidrOut>>

CreateFlowLogRole ==
  /\ pc = "flowLogRole"
  /\ registry' = Append(registry,
       Resource("aws:iam:Role", <<ComponentName, "flow-log-role">>,
                [ assumeRolePolicy |-> [Service |-> "vpc-flow-logs.amazonaws.com"] ],
                <<>>, <<>>, UnnamedTags))
  /\ local' = [local EXCEPT !.flowLogRole = Len(registry) + 1]
  /\ pc' = "flowLogPolicy"
  /\ UNCHANGED <<args, outputs, error, prev, cidrIn, cidrOut>>

CreateFlowLogPolicy ==
  /\ pc = "flowLogPolicy"
  /\ registry' = Append(registry,
       Resource("aws:iam:RolePolicy", <<ComponentName, "flow-log-policy">>,
                [ Version |-> "2012-10-17", Effect |-> "Allow",
                  Action  |-> << "logs:CreateLogGroup", "logs:CreateLogStream",
                                 "logs:PutLogEvents", "logs:DescribeLogGroups",
                                 "logs:DescribeLogStreams" >> ],
                [ role     |-> Ref(local.flowLogRole, "id"),
                  Resource |-> Ref(local.flowLogGroup, "arn") ],
                <<>>, NoTags))
  /\ pc' = "flowLog"
  /\ UNCHANGED <<args, local, outputs, error, prev, cidrIn, cidrOut>>

CreateFlowLog ==
  /\ pc = "flowLog"
  /\ registry' = Append(registry,
       Resource("aws:ec2:FlowLog", <<ComponentName, "flow-log">>,
                [trafficType |-> "ALL"],
                [ vpcId          |-> Ref(local.vpc, "id"),
                  logDestination |-> Ref(local.flowLogGroup, "arn"),
                  iamRoleArn     |-> Ref(local.flowLogRole, "arn") ],
                <<>>, StandardTags(<<ComponentName, "flow-log">>)))
  /\ local' = [local EXCEPT !.flowLog = Some(Len(registry) + 1)]
  /\ pc' = "outputs"
  /\ UNCHANGED <<args, outputs, error, prev, cidrIn, cidrOut>>

\* "Set outputs" and registerOutputs: every output is the id (for vpcCidr the
\* cidrBlock) of a declared resource.
SetOutputs ==
  /\ pc = "outputs"
  /\ outputs' = Some(
       [ vpcId                |-> local.vpc,
         vpcCidr              |-> Ref(local.vpc, "cidrBlock"),
         publicSubnetIds      |-> [i \in 1..Len(local.publicSubnets) |->
                                     registry[local.publicSubnets[i]].id],
         privateSubnetIds     |-> [i \in 1..Len(local.privateSubnets) |->
                                     registry[local.privateSubnets[i]].id],
         publicRouteTableId   |-> local.publicRouteTable,
         privateRouteTableIds |-> [i \in 1..Len(local.privateRouteTables) |->
                                     registry[local.privateRouteTables[i]].id],
         natGatewayIds        |-> [i \in 1..Len(local.natGateways) |->
                                     registry[local.natGateways[i]].id],
         internetGatewayId    |-> local.internetGateway,
         flowLogId            |-> FlowLogId ])
  /\ pc' = "done"
  /\ UNCHANGED <<registry, args, local, error, prev, cidrIn, cidrOut>>

Next ==
  \/ Super
  \/ Validate
  \/ CreateVpc
  \/ CreateInternetGateway
  \/ CreatePublicSubnet
  \/ CreatePrivateSubnet
  \/ CreatePublicRouteTable
  \/ AssociatePublicSubnet
  \/ AllocateEip
  \/ CreateNatGateway
  \/ CreatePrivateRouteTableNat
  \/ CreatePrivateRouteTable
  \/ AssociatePrivateSubnet
  \/ CreateDefaultSecurityGroup
  \/ CreateFlowLogGroup
  \/ CreateFlowLogRole
  \/ CreateFlowLogPolicy
  \/ CreateFlowLog
  \/ SetOutputs

Spec == Init /\ [][Next]_vars

(***************************************************************************)
(* A second construction in the same program, after the first returned:    *)
(* with the same arguments, or with one optional field left out.           *)
(***************************************************************************)
OptionalFields ==
  {"instanceTenancy", "enableNatGateway", "enableFlowLogs", "flowLogRetentionDays"}

ConstructAgain ==
  /\ pc = "done"
  /\ ~prev.some
  /\ \E a \in {args} \cup { [args EXCEPT ![f] = None] : f \in OptionalFields } :
       args' = a
  /\ prev' = Some([args |-> args, last |-> Len(registry), outputs |-> outputs.val])
  /\ local' = NoLocals
  /\ outputs' = None
  /\ pc' = "super"
  /\ UNCHANGED <<registry, error, cidrIn, cidrOut>>

\* Inputs of the first of two constructions: the optional fields that have a
\* default take every value.
PairInputs ==
  UNION { [ cidrBlock            : {Some(VpcCidr)},
            availabilityZones    : {Some([i \in 1..n |-> IF i % 2 = 1 THEN "a" ELSE "b"])},
            publicSubnetCidrs    : {Some([i \in 1..n |-> SubnetCidr(i)])},
            privateSubnetCidrs   : {Some([i \in 1..n |-> SubnetCidr(10 + i)])},
            environment          : {Some("dev")},
            project              : {Some("idp")},
            instanceTenancy      : Tenancies,
            enableNatGateway     : Flags,
            enableFlowLogs       : Flags,
            flowLogRetentionDays : Retentions,
            tags                 : {None} ] : n \in 1..MaxZones }

InitPair ==
  /\ registry = <<>>
  /\ pc = "super"
  /\ args \in PairInputs
  /\ local = NoLocals
  /\ outputs = None
  /\ error = None
  /\ prev = None
  /\ cidrIn = <<>>
  /\ cidrOut = None

NextPair == Next \/ ConstructAgain

SpecPair == InitPair /\ [][NextPair]_vars

(***************************************************************************)
(* A direct call of validateCidrBlock.                                     *)
(***************************************************************************)
Str1(c) == <<c>>

Str2(c, d) == <<c, d>>

Str3(c, d, e) == <<c, d, e>>

\* The strings the specification lists as rejected, then as accepted.
ListedCidrs ==
  << <<"1", "0", ".", "0", ".", "0", ".", "0">>,
     <<"1", "0", ".", "0", ".", "0", ".", "0", "/", "3", "1">>,
     <<"1", "0", ".", "0", ".", "0", ".", "0", "/", "7">>,
     <<"9", "9", "9", ".", "0", ".", "0", ".", "0", "/", "1", "6">>,
     <<"1", "0", ".", "0", ".", "0", ".", "0", "/", "1", "6", "x">>,
     <<"1", "0", ".", "0", ".", "0", ".", "0", "/", "1", "6">>,
     <<"1", "7", "2", ".", "1", "6", ".", "0", ".", "0", "/", "1", "2">> >>

\* Longest run of characters added after the prefix length.
MaxTrailing == 1

TrailingChars == {"x", "0", "\n"}

\* Strings put together from octets, separators, a prefix length and a
\* trailer, each of them well formed or not.
CidrInputs ==
  Range(ListedCidrs) \cup
  { o1 \o d1 \o o2 \o d2 \o o3 \o Str1(".") \o o4 \o sl \o pl \o tr :
      o1 \in { Str1("0"), Str2("1", "0"), Str3("2", "5", "5"), Str3("2", "5", "6"),
               Str3("0", "1", "0"), <<"1", "0", "0", "0">>, Str1("x"), <<>> },
      d1 \in { Str1("."), Str1("/") },
      o2 \in { Str1("0"), Str3("3", "0", "0") },
      d2 \in { Str1("."), <<>> },
      o3 \in { Str1("0"), Str2("-", "1") },
      o4 \in { Str1("0"), Str3("2", "4", "9"), Str3("2", "6", "0") },
      sl \in { Str1("/"), Str1("."), <<>> },
      pl \in { <<>>, Str1("7"), Str1("8"), Str2("0", "8"), Str2("0", "7"), Str2("1", "6"),
               Str2("3", "0"), Str2("3", "1"), Str2("9", "9"), Str3("0", "1", "6"),
               Str2("1", "x") },
      tr \in SeqsUpTo(TrailingChars, MaxTrailing) }

InitCidr ==
  /\ registry = <<>>
  /\ pc = "idle"
  /\ args = CHOOSE a \in OptionInputs : TRUE
  /\ local = NoLocals
  /\ outputs = None
  /\ error = None
  /\ prev = None
  /\ cidrIn \in CidrInputs
  /\ cidrOut = None

CallValidateCidrBlock ==
  /\ pc = "idle"
  /\ ~cidrOut.some
  /\ cidrOut' = Some(ValidateCidrBlock(cidrIn, <<"VPC CIDR">>))
  /\ UNCHANGED <<registry, pc, args, local, outputs, error, prev, cidrIn>>

NextCidr == CallValidateCidrBlock

SpecCidr == InitCidr /\ [][NextCidr]_vars

(***************************************************************************)
(* The validation rules as the specification states them (section 4.1).    *)
(***************************************************************************)
\* A decimal octet: one to three digits, at most 255.
IsOctet(s) ==
  /\ Len(s) \in 1..3
  /\ \A k \in 1..Len(s) : IsDigit(s[k])
  /\ Len(s) = 3 =>
       \/ s[1] \in {"0", "1"}
       \/ s[1] = "2" /\ s[2] \in {"0", "1", "2", "3", "4"}
       \/ s[1] = "2" /\ s[2] = "5" /\ s[3] \in {"0", "1", "2", "3", "4", "5"}

\* A prefix length of 8 to 30, in one or two digits.
IsPrefixLength(s) ==
  \/ Len(s) = 1 /\ s[1] \in {"8", "9"}
  \/ Len(s) = 2 /\ s[1] = "0" /\ s[2] \in {"8", "9"}
  \/ Len(s) = 2 /\ s[1] \in {"1", "2"} /\ IsDigit(s[2])
  \/ Len(s) = 2 /\ s[1] = "3" /\ s[2] = "0"

\* Four octets separated by dots, a slash, a prefix length, nothing else.
CidrWellFormed(s) ==
  \E d1 \in 1..Len(s) :
    /\ s[d1] = "." /\ IsOctet(Chars(s, 1, d1 - 1))
    /\ \E d2 \in (d1 + 1)..Len(s) :
         /\ s[d2] = "." /\ IsOctet(Chars(s, d1 + 1, d2 - 1))
         /\ \E d3 \in (d2 + 1)..Len(s) :
              /\ s[d3] = "." /\ IsOctet(Chars(s, d2 + 1, d3 - 1))
              /\ \E sl \in (d3 + 1)..Len(s) :
                   /\ s[sl] = "/" /\ IsOctet(Chars(s, d3 + 1, sl - 1))
                   /\ IsPrefixLength(Chars(s, sl + 1, Len(s)))

IllFormedAt(cidrs) ==
  IF cidrs.some THEN { i \in 1..Len(cidrs.val) : ~CidrWellFormed(cidrs.val[i]) } ELSE {}

Min(S) == CHOOSE m \in S : \A n \in S : m <= n

\* The numbers of the rules of section 4.1 that configuration a violates.
ViolatedRules(a) ==
  { r \in 1..8 :
      \/ r = 1 /\ (~a.cidrBlock.some \/ a.cidrBlock.val = <<>>)
      \/ r = 2 /\ (~a.availabilityZones.some \/ a.availabilityZones.val = <<>>)
      \/ r = 3 /\ (~a.publicSubnetCidrs.some
                   \/ (a.availabilityZones.some
                       /\ Len(a.publicSubnetCidrs.val) # Len(a.availabilityZones.val)))
      \/ r = 4 /\ (~a.privateSubnetCidrs.some
                   \/ (a.availabilityZones.some
                       /\ Len(a.privateSubnetCidrs.val) # Len(a.availabilityZones.val)))
      \/ r = 5 /\ (~a.environment.some \/ a.environment.val = "")
      \/ r = 6 /\ (~a.project.some \/ a.project.val = "")
      \/ r = 7 /\ a.cidrBlock.some /\ ~CidrWellFormed(a.cidrBlock.val)
      \/ r = 8 /\ (IllFormedAt(a.publicSubnetCidrs) # {}
                   \/ IllFormedAt(a.privateSubnetCidrs) # {}) }

\* The rule an error message names.
RuleNamedBy(msg) ==
  CASE msg[1] = "cidrBlock is required" -> 1
    [] msg[1] = "availabilityZones must be provided and non-empty" -> 2
    [] msg[1] = "publicSubnetCidrs must be provided and match the number of availability zones" -> 3
    [] msg[1] = "privateSubnetCidrs must be provided and match the number of availability zones" -> 4
    [] msg[1] = "environment is required" -> 5
    [] msg[1] = "project is required" -> 6
    [] msg[1] = "VPC CIDR" -> 7
    [] msg[1] \in {"Public subnet", "Private subnet"} -> 8
    [] OTHER -> 0

\* The subnet CIDR a rule-8 message has to name: the first ill-formed public
\* one, or else the first ill-formed private one.
FirstOffendingSubnet(a) ==
  IF IllFormedAt(a.publicSubnetCidrs) # {}
  THEN <<"Public subnet", IndexString(Min(IllFormedAt(a.publicSubnetCidrs)) - 1), "CIDR">>
  ELSE <<"Private subnet", IndexString(Min(IllFormedAt(a.privateSubnetCidrs)) - 1), "CIDR">>

Validated == pc \notin {"idle", "super", "validateArgs"}

Children == { k \in 1..Len(registry) : registry[k].parent # 0 }

(***************************************************************************)
(* C1                                                                      *)
(***************************************************************************)
\* C1, as stated: when the validation error is raised, the set of resources
\* this construction has registered with the engine is empty.
C1_NothingRegisteredAtError ==
  pc = "failed" => registry = <<>>

\* C1, amended: every configuration that violates a rule makes the
\* constructor throw, and when the error is raised the only registration made
\* is the component's own (by the base-class constructor); no resource of the
\* component has been declared.
C1_NoResourceDeclaredAtError ==
  /\ (Validated /\ ViolatedRules(args) # {}) => pc = "failed"
  /\ pc = "failed" =>
       /\ error.some
       /\ Len(registry) = 1
       /\ registry[1].type = "proserve:aws:Vpc"
       /\ Children = {}
       /\ outputs = None

\* C1 witness: the error for three zones and two public CIDRs has been raised.
C1_Witness ==
  /\ pc = "failed"
  /\ args.availabilityZones.some /\ Len(args.availabilityZones.val) = 3
  /\ args.publicSubnetCidrs.some /\ Len(args.publicSubnetCidrs.val) = 2
  /\ RuleNamedBy(error.val) = 3

(***************************************************************************)
(* C2                                                                      *)
(***************************************************************************)
\* C2: validateArgs throws exactly when some rule is violated; the one error
\* it throws names the lowest-numbered violated rule, and for rule 8 the
\* first offending subnet CIDR (public before private, each in index order).
C2_FailFastInRuleOrder ==
  Validated =>
    IF ViolatedRules(args) = {}
    THEN pc # "failed" /\ error = None
    ELSE /\ pc = "failed"
         /\ error.some
         /\ RuleNamedBy(error.val) = Min(ViolatedRules(args))
         /\ RuleNamedBy(error.val) = 8 =>
              Chars(error.val, 1, 3) = FirstOffendingSubnet(args)

\* C2 witness: an error raised for a configuration that violates rules 5, 6
\* and 8, its second public CIDR and its first private CIDR being ill formed.
C2_Witness ==
  /\ pc = "failed"
  /\ ViolatedRules(args) = {5, 6, 8}
  /\ IllFormedAt(args.publicSubnetCidrs) = {2}
  /\ 1 \in IllFormedAt(args.privateSubnetCidrs)

\* A rule-8 error that names the second public CIDR although the first
\* private CIDR is ill formed too.
C2_IndexReached ==
  /\ pc = "failed"
  /\ ViolatedRules(args) = {8}
  /\ IllFormedAt(args.publicSubnetCidrs) = {2}
  /\ 1 \in IllFormedAt(args.privateSubnetCidrs)
  /\ error.val[2] = "1"

(***************************************************************************)
(* The declared graph, as the claims about it read it.                     *)
(***************************************************************************)
\* The identifiers of the declared resources of a type, in declaration order.
IdsOfType(type) ==
  LET of == SelectSeq(registry, LAMBDA r : r.type = type)
  IN  [i \in 1..Len(of) |-> of[i].id]

Injective(f) == \A i, j \in DOMAIN f : f[i] = f[j] => i = j

Out == outputs.val

Built == pc = "done"

NatRequested == args.enableNatGateway \in {None, Some(TRUE)}

FlowLogsRequested == args.enableFlowLogs \in {None, Some(TRUE)}

RouteTablesTagged(type) ==
  { id \in Range(IdsOfType("aws:ec2:RouteTable")) : registry[id].tags.Type = type }

(***************************************************************************)
(* C3                                                                      *)
(***************************************************************************)
Accepted == cidrOut.val = None

\* C3: validateCidrBlock accepts a string exactly when it is four octets of
\* 0 to 255 separated by dots, a slash and a prefix length of 8 to 30, with
\* nothing after it; it rejects the five strings and accepts the two strings
\* the specification lists.
C3_AcceptsExactlyWellFormed ==
  cidrOut.some =>
    /\ Accepted <=> CidrWellFormed(cidrIn)
    /\ cidrIn \in { ListedCidrs[k] : k \in 1..5 } => ~Accepted
    /\ cidrIn \in { ListedCidrs[k] : k \in 6..7 } => Accepted

\* C3 witness: "10.0.0.0/16x" has been rejected.
C3_Witness ==
  /\ cidrOut.some
  /\ cidrIn = ListedCidrs[5]
  /\ ~Accepted

\* "172.16.0.0/12" has been accepted.
C3_AcceptedReached ==
  /\ cidrOut.some
  /\ cidrIn = ListedCidrs[7]
  /\ Accepted

(***************************************************************************)
(* C4                                                                      *)
(***************************************************************************)
\* C4: after a construction that passed validation, publicSubnetIds,
\* privateSubnetIds and privateRouteTableIds have one entry per zone, entry i
\* being the subnet (route table) declared for zone i with the i-th public
\* (private) CIDR; one public route table and one internet gateway exist.
C4_OutputsFollowZoneOrder ==
  Built =>
    /\ Len(Out.publicSubnetIds) = Len(Zones)
    /\ Len(Out.privateSubnetIds) = Len(Zones)
    /\ Len(Out.privateRouteTableIds) = Len(Zones)
    /\ Injective(Out.publicSubnetIds \o Out.privateSubnetIds \o Out.privateRouteTableIds)
    /\ \A i \in 1..Len(Zones) :
         /\ LET r == registry[Out.publicSubnetIds[i]]
            IN  /\ r.type = "aws:ec2:Subnet"
                /\ r.props.availabilityZone = Zones[i]
                /\ r.props.cidrBlock = args.publicSubnetCidrs.val[i]
                /\ r.props.mapPublicIpOnLaunch
                /\ r.tags.Type = "public"
         /\ LET r == registry[Out.privateSubnetIds[i]]
            IN  /\ r.type = "aws:ec2:Subnet"
                /\ r.props.availabilityZone = Zones[i]
                /\ r.props.cidrBlock = args.privateSubnetCidrs.val[i]
                /\ ~r.props.mapPublicIpOnLaunch
                /\ r.tags.Type = "private"
         /\ LET r == registry[Out.privateRouteTableIds[i]]
            IN  /\ r.type = "aws:ec2:RouteTable"
                /\ r.name = <<ComponentName, "private-rt", Zones[i]>>
                /\ r.tags.Type = "private"
    /\ Len(IdsOfType("aws:ec2:Subnet")) = 2 * Len(Zones)
    /\ RouteTablesTagged("public") = {Out.publicRouteTableId}
    /\ IdsOfType("aws:ec2:InternetGateway") = <<Out.internetGatewayId>>

\* C4 witness: a finished construction for three zones whose public CIDRs
\* were given in descending order.
C4_Witness ==
  /\ Built
  /\ Len(Zones) = 3
  /\ args.publicSubnetCidrs.val = <<SubnetCidr(3), SubnetCidr(2), SubnetCidr(1)>>
  /\ Len(Out.publicSubnetIds) = 3

(***************************************************************************)
(* C5                                                                      *)
(***************************************************************************)
\* C5: with enableNatGateway false, no elastic address and no NAT gateway is
\* declared, natGatewayIds is empty, and each of the len(zones) private route
\* tables has no route.
C5_NoNatWhenDisabled ==
  (Built /\ args.enableNatGateway = Some(FALSE)) =>
    /\ IdsOfType("aws:ec2:Eip") = <<>>
    /\ IdsOfType("aws:ec2:NatGateway") = <<>>
    /\ Out.natGatewayIds = <<>>
    /\ Cardinality(RouteTablesTagged("private")) = Len(Zones)
    /\ RouteTablesTagged("private") = Range(Out.privateRouteTableIds)
    /\ \A id \in RouteTablesTagged("private") : registry[id].routes = <<>>

\* C5 witness: a finished construction for two zones with NAT disabled.
C5_Witness ==
  /\ Built
  /\ args.enableNatGateway = Some(FALSE)
  /\ Len(Zones) = 2
  /\ Len(Out.privateRouteTableIds) = 2

(***************************************************************************)
(* C6                                                                      *)
(***************************************************************************)
\* C6: with NAT enabled (the flag true or omitted), natGatewayIds has one
\* entry per zone; NAT gateway i is bound to elastic address i and public
\* subnet i, and private route table i has exactly one route, the default
\* route, whose target is NAT gateway i.
C6_NatWiredPerZone ==
  (Built /\ NatRequested) =>
    /\ Len(Out.natGatewayIds) = Len(Zones)
    /\ Out.natGatewayIds = IdsOfType("aws:ec2:NatGateway")
    /\ Len(IdsOfType("aws:ec2:Eip")) = Len(Zones)
    /\ Injective(Out.natGatewayIds)
    /\ \A i \in 1..Len(Zones) :
         /\ LET nat == registry[Out.natGatewayIds[i]]
            IN  /\ nat.refs.allocationId = Ref(IdsOfType("aws:ec2:Eip")[i], "id")
                /\ nat.refs.subnetId = Ref(Out.publicSubnetIds[i], "id")
         /\ LET rt == registry[Out.privateRouteTableIds[i]]
            IN  /\ Len(rt.routes) = 1
                /\ rt.routes[1].cidrBlock = "0.0.0.0/0"
                /\ rt.routes[1].key = "natGatewayId"
                /\ rt.routes[1].target = Ref(Out.natGatewayIds[i], "id")

\* C6 witness: a finished construction for three zones with NAT enabled by
\* default.
C6_Witness ==
  /\ Built
  /\ args.enableNatGateway = None
  /\ Len(Zones) = 3
  /\ Len(Out.natGatewayIds) = 3

(***************************************************************************)
(* C7                                                                      *)
(***************************************************************************)
FlowLoggingTypes ==
  {"aws:cloudwatch:LogGroup", "aws:iam:Role", "aws:iam:RolePolicy", "aws:ec2:FlowLog"}

\* C7: after construction either the log group, the role, the role policy
\* and the flow log are all declared (once each) and flowLogId is the flow
\* log's identifier, or none is declared and flowLogId is absent; the first
\* holds exactly when flow logging is enabled (the flag true or omitted); the
\* flow log captures ALL traffic of the VPC, to that log group, via that role.
C7_FlowLoggingAllOrNothing ==
  Built =>
    IF FlowLogsRequested
    THEN /\ \A t \in FlowLoggingTypes : Len(IdsOfType(t)) = 1
         /\ Out.flowLogId = Some(IdsOfType("aws:ec2:FlowLog")[1])
         /\ LET fl == registry[IdsOfType("aws:ec2:FlowLog")[1]]
            IN  /\ fl.props.trafficType = "ALL"
                /\ fl.refs.vpcId = Ref(Out.vpcId, "id")
                /\ fl.refs.logDestination = Ref(IdsOfType("aws:cloudwatch:LogGroup")[1], "arn")
                /\ fl.refs.iamRoleArn = Ref(IdsOfType("aws:iam:Role")[1], "arn")
         /\ registry[IdsOfType("aws:iam:RolePolicy")[1]].refs.role =
              Ref(IdsOfType("aws:iam:Role")[1], "id")
    ELSE /\ \A t \in FlowLoggingTypes : Len(IdsOfType(t)) = 0
         /\ Out.flowLogId = None

\* C7 witness: a finished construction with flow logging enabled by default.
C7_Witness ==
  /\ Built
  /\ args.enableFlowLogs = None
  /\ Out.flowLogId.some

\* A finished construction with flow logging disabled.
C7_DisabledReached ==
  /\ Built
  /\ args.enableFlowLogs = Some(FALSE)
  /\ Out.flowLogId = None

(***************************************************************************)
(* C8                                                                      *)
(***************************************************************************)
AssociationsOf(subnet) ==
  { id \in Range(IdsOfType("aws:ec2:RouteTableAssociation")) :
      registry[id].refs.subnetId.res = subnet }

\* C8: every declared subnet has exactly one route-table association: public
\* subnet i with the one public route table, whose only route is the default
\* route to the internet gateway, and private subnet i with private route
\* table i; no subnet is both public and private.
C8_OneAssociationPerSubnet ==
  Built =>
    /\ Range(IdsOfType("aws:ec2:Subnet")) =
         Range(Out.publicSubnetIds) \cup Range(Out.privateSubnetIds)
    /\ Range(Out.publicSubnetIds) \cap Range(Out.privateSubnetIds) = {}
    /\ \A s \in Range(IdsOfType("aws:ec2:Subnet")) : Cardinality(AssociationsOf(s)) = 1
    /\ \A i \in 1..Len(Zones) :
         /\ \A a \in AssociationsOf(Out.publicSubnetIds[i]) :
              registry[a].refs.routeTableId = Ref(Out.publicRouteTableId, "id")
         /\ \A a \in AssociationsOf(Out.privateSubnetIds[i]) :
              registry[a].refs.routeTableId = Ref(Out.privateRouteTableIds[i], "id")
    /\ registry[Out.publicRouteTableId].routes =
         << [ cidrBlock |-> "0.0.0.0/0", key |-> "gatewayId",
              target |-> Ref(Out.internetGatewayId, "id") ] >>

\* C8 witness: a finished construction for three zones with NAT disabled.
C8_Witness ==
  /\ Built
  /\ Len(Zones) = 3
  /\ args.enableNatGateway = Some(FALSE)
  /\ Cardinality(Range(IdsOfType("aws:ec2:RouteTableAssociation"))) = 6

(***************************************************************************)
(* C9                                                                      *)
(***************************************************************************)
TaggableTypes ==
  { "aws:ec2:Vpc", "aws:ec2:InternetGateway", "aws:ec2:Subnet", "aws:ec2:RouteTable",
    "aws:ec2:Eip", "aws:ec2:NatGateway", "aws:ec2:DefaultSecurityGroup",
    "aws:cloudwatch:LogGroup", "aws:iam:Role", "aws:ec2:FlowLog" }

\* C9: every declared taggable resource carries every tag of args.tags with
\* the configured value.
C9_TagsOnEveryResource ==
  (Built /\ args.tags.some) =>
    \A id \in 1..Len(registry) :
      registry[id].type \in TaggableTypes =>
        \A k \in DOMAIN args.tags.val :
          /\ k \in DOMAIN registry[id].tags
          /\ registry[id].tags[k] = args.tags.val[k]

(***************************************************************************)
(* C10                                                                     *)
(***************************************************************************)
\* The resources declared from position `from` to position `to`, without
\* the identifiers the engine assigned: a reference is the position of its
\* target within the construction.
Structure(from, to) ==
  [ k \in 1..(to - from + 1) |->
      LET r == registry[from + k - 1]
      IN  [ type   |-> r.type,
            name   |-> r.name,
            parent |-> IF r.parent = 0 THEN 0 ELSE r.parent - (from - 1),
            props  |-> r.props,
            refs   |-> [f \in DOMAIN r.refs |->
                          [res |-> r.refs[f].res - (from - 1), attr |-> r.refs[f].attr]],
            routes |-> [n \in DOMAIN r.routes |->
                          [ cidrBlock |-> r.routes[n].cidrBlock,
                            key       |-> r.routes[n].key,
                            target    |-> [ res  |-> r.routes[n].target.res - (from - 1),
                                            attr |-> r.routes[n].target.attr ] ]],
            tags   |-> r.tags ] ]

\* A configuration with the documented default in place of each omitted
\* optional field.
WithDefaults(a) ==
  [a EXCEPT
     !.instanceTenancy      = IF @.some THEN @ ELSE Some("default"),
     !.enableNatGateway     = IF @.some THEN @ ELSE Some(TRUE),
     !.enableFlowLogs       = IF @.some THEN @ ELSE Some(TRUE),
     !.flowLogRetentionDays = IF @.some THEN @ ELSE Some(7)]

\* C10: a construction that leaves an optional field out declares the same
\* graph, up to the engine's identifiers, as the construction that gives the
\* field its documented default ("default", true, true, 7).
C10_OmittedEqualsDefault ==
  (Built /\ prev.some /\ WithDefaults(args) = WithDefaults(prev.val.args)) =>
    Structure(prev.val.last + 1, Len(registry)) = Structure(1, prev.val.last)

\* C10 witness: two finished constructions, the first with instanceTenancy
\* "default", the second without it.
C10_Witness ==
  /\ Built
  /\ prev.some
  /\ prev.val.args.instanceTenancy = Some("default")
  /\ args = [prev.val.args EXCEPT !.instanceTenancy = None]
  /\ Len(registry) = 2 * prev.val.last

(***************************************************************************)
(* C11                                                                     *)
(***************************************************************************)
\* C11: when flow logging is enabled, the retention of the log group is the
\* configured flowLogRetentionDays, whatever its value (0 included), and it
\* is 7 only when flowLogRetentionDays is not configured.
C11_RetentionIsConfiguredValue ==
  (Built /\ FlowLogsRequested) =>
    LET retention == registry[IdsOfType("aws:cloudwatch:LogGroup")[1]].props.retentionInDays
    IN  /\ args.flowLogRetentionDays.some => retention = args.flowLogRetentionDays.val
        /\ ~args.flowLogRetentionDays.some => retention = 7

\* A finished construction with flow logging and a configured retention of
\* 30 days, which the log group has.
C11_ConfiguredReached ==
  /\ Built
  /\ FlowLogsRequested
  /\ args.flowLogRetentionDays = Some(30)
  /\ registry[IdsOfType("aws:cloudwatch:LogGroup")[1]].props.retentionInDays = 30

(***************************************************************************)
(* C12                                                                     *)
(***************************************************************************)
\* The outputs of a construction whose resources start after position base,
\* without the identifiers the engine assigned.
RelativeOutputs(o, base) ==
  [ vpcId                |-> o.vpcId - base,
    vpcCidr              |-> [res |-> o.vpcCidr.res - base, attr |-> o.vpcCidr.attr],
    publicSubnetIds      |-> [i \in DOMAIN o.publicSubnetIds |-> o.publicSubnetIds[i] - base],
    privateSubnetIds     |-> [i \in DOMAIN o.privateSubnetIds |-> o.privateSubnetIds[i] - base],
    publicRouteTableId   |-> o.publicRouteTableId - base,
    privateRouteTableIds |-> [i \in DOMAIN o.privateRouteTableIds |->
                                o.privateRouteTableIds[i] - base],
    natGatewayIds        |-> [i \in DOMAIN o.natGatewayIds |-> o.natGatewayIds[i] - base],
    internetGatewayId    |-> o.internetGatewayId - base,
    flowLogId            |-> IF o.flowLogId.some THEN Some(o.flowLogId.val - base) ELSE None ]

\* The positions a resource refers to: its parent and the targets of its
\* references and routes.
TargetsOf(r) ==
  (IF r.parent = 0 THEN {} ELSE {r.parent})
    \cup { r.refs[f].res : f \in DOMAIN r.refs }
    \cup { r.routes[n].target.res : n \in DOMAIN r.routes }

DistinctTypeAndName ==
  \A i, j \in 1..Len(registry) :
    (registry[i].type = registry[j].type /\ registry[i].name = registry[j].name) => i = j

\* C13: after a construction that passed validation, the declared resources
\* have pairwise distinct (type, logical name) pairs, also when a zone
\* appears more than once in availabilityZones.
C13_DistinctTypeAndNamePairs ==
  Built => DistinctTypeAndName

\* The pairs are distinct whenever no zone is repeated.
C13_DistinctForDistinctZones ==
  (Built /\ Injective(Zones)) => DistinctTypeAndName

\* A finished construction for the zones a, a: two subnets share a name.
C13_RepeatedZoneReached ==
  /\ Built
  /\ Zones = <<"a", "a">>
  /\ registry[Out.publicSubnetIds[1]].name = registry[Out.publicSubnetIds[2]].name

====
